---- MODULE Spec2Model ----
(***************************************************************************)
(* picaso_lcd.display: the Display facade of a 4D Systems serial LCD and   *)
(* its DisplayText subsystem.  A call of a method is one action.  The      *)
(* serial port is the pair (bytes written, bytes read); the device answers *)
(* any byte of Bytes where an acknowledgement is read and any of Payload   *)
(* in a response.  Python values are tagged records [t, v] so that         *)
(* the difference between a 1-character str and an int, which ord() cares  *)
(* about, is kept.                                                         *)
(***************************************************************************)
EXTENDS Integers, Sequences

(* ------------------------------ bounds -------------------------------- *)

\* longest list of vertices handed to gfx_polyline
MaxVertices == 2
\* longest of the short strings handed to put_string
MaxShortStr == 2
\* largest return_bytes of a direct _get_ack call
MaxReturnBytes == 2
\* longest recorded session of contrast calls
MaxCalls == 3
\* longest command handed to a direct write_cmd call
MaxWords == 2

(* --------------------------- program constants ------------------------ *)

\* constants.ACK, the acknowledgement byte
ACK == 6
\* the longest string put_string accepts
MaxStringLength == 511

(* ------------------------------ inputs -------------------------------- *)

\* what the device may answer where an acknowledgement is read: 0x00, 0x01,
\* ACK, NAK (0x15); and the bytes of a response: 0x00, 0x02
Bytes == {0, 1, ACK, \h15}
Payload == {0, 2}
\* the device's answer to one command with n response bytes, and to k of them
Answer(n) == {<<a>> \o p : a \in Bytes, p \in [1..n -> Payload]}
Answer0 == Answer(0)
Answer2 == Answer(2)
Answer22 == {x \o y : x \in Answer2, y \in Answer2}

Points == {<<0, 1>>, <<300, 2>>}
Colors == {\hf800}
Radii == {5, 7}
Contrasts == {0, 15, 200}
Orientations == 0..3
FontSizes == {1, 2}
Fonts == {0, 3}
Chars == {\h4f, \h4b}
SeqsUpTo(S, n) == UNION {[1..k -> S] : k \in 0..n}
\* words: 0x0000, the largest that fits a byte, the smallest that does not, an opcode
Words == {0, 255, 256, \hffc5}
Strings == SeqsUpTo(Chars, MaxShortStr)
             \cup {[i \in 1..MaxStringLength |-> \h4f],
                   [i \in 1..(MaxStringLength + 1) |-> \h4f]}

(* --------------------------- Python values ---------------------------- *)

PyNone == [t |-> "none", v |-> <<>>]
PyInt(n) == [t |-> "int", v |-> n]
PyStr(n) == [t |-> "str", v |-> n]
PyList(s) == [t |-> "list", v |-> s]
PyTuple(s) == [t |-> "tuple", v |-> s]
NoValue == [t |-> "raised", v |-> <<>>]

(* utils.int_to_dword and utils.dword_to_int: big-endian, reduced modulo   *)
(* 256 per byte.                                                           *)
int_to_dword(w) == <<(w \div 256) % 256, w % 256>>
dword_to_int(high, low) == high * 256 + low

(* ------------------------- one call's context ------------------------- *)
(* contrast: self._contrast; tx: the bytes written to the port, in order;  *)
(* dev: the bytes the device sends; pos: how many of them were read; io:   *)
(* the transport calls made, in order; err/errval: the exception raised,   *)
(* if any; ret: the value of the last expression, then the return value.   *)

Enter(contrast0, dev) ==
    [contrast |-> contrast0, tx |-> <<>>, dev |-> dev, pos |-> 0, io |-> <<>>,
     err |-> "none", errval |-> 0, ret |-> PyNone]

Ok(c) == c.err = "none"
Raise(c, kind, val) == [c EXCEPT !.err = kind, !.errval = val, !.ret = NoValue]
Return(c, val) == IF Ok(c) THEN [c EXCEPT !.ret = val] ELSE c

(* ------------------- serial communication handling -------------------- *)

\* write_cmd sending a value that fits into one byte as that one byte
write_cmd_short(c, cmd) ==
    IF ~Ok(c) THEN c
    ELSE LET bytes(w) == IF w < 256 THEN <<w>> ELSE int_to_dword(w)
             out[i \in 0..Len(cmd)] ==
                 IF i = 0 THEN <<>> ELSE out[i - 1] \o bytes(cmd[i])
         IN  [c EXCEPT !.tx = @ \o out[Len(cmd)],
                       !.io = Append(@, [k |-> "write_cmd", d |-> cmd])]

write_cmd(c, cmd) ==
    IF ~Ok(c) THEN c
    ELSE [c EXCEPT
            !.tx = @ \o [i \in 1..(2 * Len(cmd)) |->
                           int_to_dword(cmd[(i + 1) \div 2])[2 - (i % 2)]],
            !.io = Append(@, [k |-> "write_cmd", d |-> cmd])]

\* write_raw_cmd splitting each value into a word, as write_cmd does
write_raw_cmd_as_words(c, cmd) ==
    IF ~Ok(c) THEN c
    ELSE [c EXCEPT
            !.tx = @ \o [i \in 1..(2 * Len(cmd)) |->
                           int_to_dword(cmd[(i + 1) \div 2])[2 - (i % 2)]],
            !.io = Append(@, [k |-> "write_raw_cmd", d |-> cmd])]

\* chr(c) raises ValueError for c outside 0..255; the bytes before it are out
write_raw_cmd(c, cmd) ==
    IF ~Ok(c) THEN c
    ELSE LET bad == {i \in 1..Len(cmd) : cmd[i] \notin 0..255}
             c1 == [c EXCEPT !.io = Append(@, [k |-> "write_raw_cmd", d |-> cmd])]
         IN  IF bad = {}
             THEN [c1 EXCEPT !.tx = @ \o cmd]
             ELSE LET first == CHOOSE i \in bad : \A j \in bad : i <= j
                  IN  Raise([c1 EXCEPT !.tx = @ \o SubSeq(cmd, 1, first - 1)],
                            "ValueError", cmd[first])

\* _get_ack reading the response bytes before it looks at the ACK byte
_get_ack_reads_first(c, return_bytes) ==
    IF ~Ok(c) THEN c
    ELSE IF c.pos + 1 + return_bytes > Len(c.dev) THEN Raise(c, "blocked", 0)
    ELSE LET ack == PyStr(c.dev[c.pos + 1])
             c1 == [c EXCEPT !.pos = @ + 1 + return_bytes,
                             !.io = Append(@, [k |-> "_get_ack", d |-> <<return_bytes>>])]
         IN  IF ack.v # ACK
             THEN Raise(c1, "PicasoException", ack.v)
             ELSE [c1 EXCEPT
                     !.ret = IF return_bytes = 0 THEN PyNone
                             ELSE PyList([i \in 1..return_bytes |->
                                            PyInt(c.dev[c.pos + 1 + i])])]

\* _get_ack putting each response byte in front of the ones read before it
_get_ack_reversed(c, return_bytes) ==
    IF ~Ok(c) THEN c
    ELSE IF c.pos >= Len(c.dev) THEN Raise(c, "blocked", 0)
    ELSE LET ack == PyStr(c.dev[c.pos + 1])
             c1 == [c EXCEPT !.pos = @ + 1,
                             !.io = Append(@, [k |-> "_get_ack", d |-> <<return_bytes>>])]
         IN  IF ack.v # ACK
             THEN Raise(c1, "PicasoException", ack.v)
             ELSE IF c1.pos + return_bytes > Len(c.dev) THEN Raise(c1, "blocked", 0)
             ELSE [c1 EXCEPT
                     !.pos = @ + return_bytes,
                     !.ret = IF return_bytes = 0 THEN PyNone
                             ELSE PyList([i \in 1..return_bytes |->
                                            PyInt(c.dev[c1.pos + return_bytes + 1 - i])])]

\* self._ser.read() blocks until the byte is there
_get_ack(c, return_bytes) ==
    IF ~Ok(c) THEN c
    ELSE IF c.pos >= Len(c.dev) THEN Raise(c, "blocked", 0)
    ELSE LET ack == PyStr(c.dev[c.pos + 1])
             c1 == [c EXCEPT !.pos = @ + 1,
                             !.io = Append(@, [k |-> "_get_ack", d |-> <<return_bytes>>])]
         IN  IF ack.v # ACK
             THEN Raise(c1, "PicasoException", ack.v)
             ELSE IF c1.pos + return_bytes > Len(c.dev) THEN Raise(c1, "blocked", 0)
             ELSE [c1 EXCEPT
                     !.pos = @ + return_bytes,
                     !.ret = IF return_bytes = 0 THEN PyNone
                             ELSE PyList([i \in 1..return_bytes |->
                                            PyInt(c.dev[c1.pos + i])])]

\* map(ord, val): ord() takes a str of length 1 and raises TypeError otherwise
map_ord(c, val) ==
    IF ~Ok(c) THEN c
    ELSE IF \E i \in 1..Len(val) : val[i].t # "str"
    THEN Raise(c, "TypeError", 0)
    ELSE [c EXCEPT !.ret = PyList([i \in 1..Len(val) |-> PyInt(val[i].v)])]

(* ----------------------------- the facade ------------------------------ *)

gfx_rect(c, x1, y1, x2, y2, color, filled) ==
    LET cmd == IF filled THEN \hffc4 ELSE \hffc5
    IN  _get_ack(write_cmd(c, <<cmd, x1, y1, x2, y2, color>>), 0)

\* gfx_polyline appending x and y of each point in one loop
gfx_polyline_interleaved(c, lines, color, closed, filled) ==
    LET cmd == IF filled THEN \h0014 ELSE IF closed THEN \h0013 ELSE \h0015
        size == Len(lines)
        cmd_list == <<cmd, size>> \o [i \in 1..(2 * size) |->
                                        lines[(i + 1) \div 2][2 - (i % 2)]]
                                  \o <<color>>
    IN  Return(_get_ack(write_cmd(c, cmd_list), 0), PyNone)

gfx_polyline(c, lines, color, closed, filled) ==
    LET cmd == IF filled THEN \h0014 ELSE IF closed THEN \h0013 ELSE \h0015
        size == Len(lines)
        cmd_list == <<cmd, size>> \o [i \in 1..size |-> lines[i][1]]
                                  \o [i \in 1..size |-> lines[i][2]]
                                  \o <<color>>
    IN  Return(_get_ack(write_cmd(c, cmd_list), 0), PyNone)

\* gfx_polyline's positional parameter color is not passed: the call raises
\* TypeError before gfx_polyline's body runs
gfx_triangle(c, vertices, filled) == Raise(c, "TypeError", 0)

gfx_ellipse(c, x, y, xrad, yrad, color, filled) ==
    LET cmd == IF filled THEN \hffb1 ELSE \hffb2
    IN  Return(_get_ack(write_cmd(c, <<cmd, x, y, xrad, yrad, color>>), 0), PyNone)

gfx_circle(c, x, y, rad, color, filled) ==
    Return(gfx_ellipse(c, x, y, rad, rad, color, filled), PyNone)

gfx_line(c, x1, y1, x2, y2, color) ==
    Return(_get_ack(write_cmd(c, <<\hffc8, x1, y1, x2, y2, color>>), 0), PyNone)

cls(c) == Return(_get_ack(write_cmd(c, <<\hffcd>>), 0), PyNone)

set_pixel(c, x, y, color) ==
    Return(_get_ack(write_cmd(c, <<\hffc1, x, y, color>>), 0), PyNone)

\* set_font_size sending both commands before it waits for an acknowledgement
set_font_size_pipelined(c, size) ==
    LET c1 == write_cmd(write_cmd(c, <<\hffe4, size>>), <<\hffe3, size>>)
        c2 == _get_ack(_get_ack(c1, 2), 2)
    IN  Return(c2, PyNone)

\* set_font_size swallowing a failed first acknowledgement and going on
set_font_size_goes_on(c, size) ==
    LET c1 == _get_ack(write_cmd(c, <<\hffe4, size>>), 2)
        c1a == IF c1.err = "PicasoException"
               THEN [c1 EXCEPT !.err = "none", !.errval = 0]
               ELSE c1
        c2 == _get_ack(write_cmd(c1a, <<\hffe3, size>>), 2)
    IN  Return(c2, PyNone)

set_font_size(c, size) ==
    LET c1 == _get_ack(write_cmd(c, <<\hffe4, size>>), 2)
        c2 == _get_ack(write_cmd(c1, <<\hffe3, size>>), 2)
    IN  Return(c2, PyNone)

set_font(c, font) == Return(_get_ack(write_cmd(c, <<\hffe5, font>>), 2), PyNone)

set_text_color(c, color) == _get_ack(write_cmd(c, <<\hffe7, color>>), 2)

\* set_background_color keeping the word of its response in _contrast
set_background_color_caches(c, color) ==
    LET c1 == _get_ack(write_cmd(c, <<\hffa4, color>>), 2)
    IN  IF Ok(c1)
        THEN Return([c1 EXCEPT !.contrast = dword_to_int(c1.ret.v[1].v, c1.ret.v[2].v)],
                    PyNone)
        ELSE c1

set_background_color(c, color) ==
    Return(_get_ack(write_cmd(c, <<\hffa4, color>>), 2), PyNone)

\* set_contrast keeping the requested value before it waits for the ACK
set_contrast_stores_first(c, contrast) ==
    LET c0 == [c EXCEPT !.contrast = contrast]
        c1 == _get_ack(write_cmd(c0, <<\hff9c, contrast>>), 2)
        c2 == IF Ok(c1) THEN map_ord(c1, c1.ret.v) ELSE c1
    IN  IF Ok(c2)
        THEN Return([c2 EXCEPT !.contrast = dword_to_int(c2.ret.v[1].v, c2.ret.v[2].v)],
                    PyNone)
        ELSE c2

set_contrast(c, contrast) ==
    LET c1 == _get_ack(write_cmd(c, <<\hff9c, contrast>>), 2)
        c2 == IF Ok(c1) THEN map_ord(c1, c1.ret.v) ELSE c1
    IN  IF Ok(c2)
        THEN Return([c2 EXCEPT !.contrast = dword_to_int(c2.ret.v[1].v, c2.ret.v[2].v)],
                    PyNone)
        ELSE c2

off(c) == Return(set_contrast(c, 0), PyNone)

on(c) == Return(set_contrast(c, c.contrast), PyNone)

set_orientation(c, value) ==
    LET c1 == _get_ack(write_cmd(c, <<\hff9e, value>>), 2)
    IN  IF Ok(c1) THEN Return(c1, c1.ret.v[1]) ELSE c1

get_display_size(c) ==
    LET c1 == _get_ack(write_cmd(c, <<\hffa6, 0>>), 2)
        c2 == IF Ok(c1) THEN map_ord(c1, <<c1.ret.v[1], c1.ret.v[2]>>) ELSE c1
        c3 == _get_ack(write_cmd(c2, <<\hffa6, 1>>), 2)
        c4 == IF Ok(c3) THEN map_ord(c3, <<c3.ret.v[1], c3.ret.v[2]>>) ELSE c3
    IN  IF Ok(c4)
        THEN Return(c4, PyTuple(<<dword_to_int(c2.ret.v[1].v, c2.ret.v[2].v),
                                  dword_to_int(c4.ret.v[1].v, c4.ret.v[2].v)>>))
        ELSE c4

(* ------------------------------ DisplayText ---------------------------- *)

move_cursor(c, line, column) ==
    Return(_get_ack(write_cmd(c, <<\hffe9, line, column>>), 0), PyNone)

\* char is given by its code, ord(char)
put_character(c, char) ==
    Return(_get_ack(write_cmd(c, <<\hfffe, char>>), 0), PyNone)

\* put_string rejecting a string of MaxStringLength characters too
put_string_off_by_one(c, string) ==
    IF Len(string) >= MaxStringLength
    THEN Raise(c, "ValueError", 0)
    ELSE LET cmd == <<0, \h18>> \o string \o <<0>>
             c1 == _get_ack(write_raw_cmd(c, cmd), 2)
         IN  IF ~Ok(c1) THEN c1
             ELSE LET length_written == dword_to_int(c1.ret.v[1].v, c1.ret.v[2].v)
                  IN  IF length_written # Len(string)
                      THEN Raise(c1, "AssertionError", 0)
                      ELSE Return(c1, PyNone)

\* put_string taking the low byte of the response for the length written
put_string_low_byte(c, string) ==
    IF Len(string) > MaxStringLength
    THEN Raise(c, "ValueError", 0)
    ELSE LET cmd == <<0, \h18>> \o string \o <<0>>
             c1 == _get_ack(write_raw_cmd(c, cmd), 2)
         IN  IF ~Ok(c1) THEN c1
             ELSE LET length_written == c1.ret.v[2].v
                  IN  IF length_written # Len(string)
                      THEN Raise(c1, "AssertionError", 0)
                      ELSE Return(c1, PyNone)

\* string is the sequence of its characters' codes
put_string(c, string) ==
    IF Len(string) > MaxStringLength
    THEN Raise(c, "ValueError", 0)
    ELSE LET cmd == <<0, \h18>> \o string \o <<0>>
             c1 == _get_ack(write_raw_cmd(c, cmd), 2)
         IN  IF ~Ok(c1) THEN c1
             ELSE LET length_written == dword_to_int(c1.ret.v[1].v, c1.ret.v[2].v)
                  IN  IF length_written # Len(string)
                      THEN Raise(c1, "AssertionError", 0)
                      ELSE Return(c1, PyNone)

(* ------------------------------- state --------------------------------- *)
(* contrast is the Display's field _contrast.  The other variables record *)
(* the last call: op and args name it, tx is what it wrote to the port,   *)
(* rxd what it read from the port, io its transport calls, err/errval the *)
(* exception it raised ("none" when it returned) and ret what it returned.*)
(* calls is the session's record of contrast calls.                       *)

VARIABLES contrast, op, args, tx, rxd, io, err, errval, ret, calls

vars == <<contrast, op, args, tx, rxd, io, err, errval, ret, calls>>

\* __init__ starting the cached contrast at 0
InitContrastZero ==
    /\ contrast = 0
    /\ op = "__init__"
    /\ args = <<>>
    /\ tx = <<>>
    /\ rxd = <<>>
    /\ io = <<>>
    /\ err = "none"
    /\ errval = 0
    /\ ret = PyNone
    /\ calls = <<>>

\* Display.__init__
Init ==
    /\ contrast = 15
    /\ op = "__init__"
    /\ args = <<>>
    /\ tx = <<>>
    /\ rxd = <<>>
    /\ io = <<>>
    /\ err = "none"
    /\ errval = 0
    /\ ret = PyNone
    /\ calls = <<>>

\* the call `name` with arguments `a` ran to the context c: it returned or raised
Outcome(name, a, c) ==
    /\ c.err # "blocked"
    /\ contrast' = c.contrast
    /\ op' = name
    /\ args' = a
    /\ tx' = c.tx
    /\ rxd' = SubSeq(c.dev, 1, c.pos)
    /\ io' = c.io
    /\ err' = c.err
    /\ errval' = c.errval
    /\ ret' = c.ret

Call(dev) == Enter(contrast, dev)

GfxRect ==
    \E p1 \in Points, p2 \in Points, color \in Colors, filled \in BOOLEAN, dev \in Answer0 :
        /\ Outcome("gfx_rect", <<p1[1], p1[2], p2[1], p2[2], color, filled>>,
                   gfx_rect(Call(dev), p1[1], p1[2], p2[1], p2[2], color, filled))
        /\ UNCHANGED calls

GfxTriangle ==
    \E vertices \in [1..3 -> Points], filled \in BOOLEAN :
        /\ Outcome("gfx_triangle", <<vertices, filled>>,
                   gfx_triangle(Call(<<>>), vertices, filled))
        /\ UNCHANGED calls

GfxPolyline ==
    \E lines \in SeqsUpTo(Points, MaxVertices), color \in Colors,
       closed \in BOOLEAN, filled \in BOOLEAN, dev \in Answer0 :
        /\ Outcome("gfx_polyline", <<lines, color, closed, filled>>,
                   gfx_polyline(Call(dev), lines, color, closed, filled))
        /\ UNCHANGED calls

GfxCircle ==
    \E p \in Points, rad \in Radii, color \in Colors, filled \in BOOLEAN, dev \in Answer0 :
        /\ Outcome("gfx_circle", <<p[1], p[2], rad, color, filled>>,
                   gfx_circle(Call(dev), p[1], p[2], rad, color, filled))
        /\ UNCHANGED calls

GfxEllipse ==
    \E p \in Points, xrad \in Radii, yrad \in Radii, color \in Colors,
       filled \in BOOLEAN, dev \in Answer0 :
        /\ Outcome("gfx_ellipse", <<p[1], p[2], xrad, yrad, color, filled>>,
                   gfx_ellipse(Call(dev), p[1], p[2], xrad, yrad, color, filled))
        /\ UNCHANGED calls

GfxLine ==
    \E p1 \in Points, p2 \in Points, color \in Colors, dev \in Answer0 :
        /\ Outcome("gfx_line", <<p1[1], p1[2], p2[1], p2[2], color>>,
                   gfx_line(Call(dev), p1[1], p1[2], p2[1], p2[2], color))
        /\ UNCHANGED calls

Cls ==
    \E dev \in Answer0 :
        /\ Outcome("cls", <<>>, cls(Call(dev)))
        /\ UNCHANGED calls

SetPixel ==
    \E p \in Points, color \in Colors, dev \in Answer0 :
        /\ Outcome("set_pixel", <<p[1], p[2], color>>, set_pixel(Call(dev), p[1], p[2], color))
        /\ UNCHANGED calls

SetFontSize ==
    \E size \in FontSizes, dev \in Answer22 :
        /\ Outcome("set_font_size", <<size>>, set_font_size(Call(dev), size))
        /\ UNCHANGED calls

SetFont ==
    \E font \in Fonts, dev \in Answer2 :
        /\ Outcome("set_font", <<font>>, set_font(Call(dev), font))
        /\ UNCHANGED calls

SetTextColor ==
    \E color \in Colors, dev \in Answer2 :
        /\ Outcome("set_text_color", <<color>>, set_text_color(Call(dev), color))
        /\ UNCHANGED calls

SetBackgroundColor ==
    \E color \in Colors, dev \in Answer2 :
        /\ Outcome("set_background_color", <<color>>, set_background_color(Call(dev), color))
        /\ UNCHANGED calls

SetContrast ==
    \E value \in Contrasts, dev \in Answer2 :
        /\ Outcome("set_contrast", <<value>>, set_contrast(Call(dev), value))
        /\ UNCHANGED calls

Off ==
    \E dev \in Answer2 :
        /\ Outcome("off", <<>>, off(Call(dev)))
        /\ UNCHANGED calls

On ==
    \E dev \in Answer2 :
        /\ Outcome("on", <<>>, on(Call(dev)))
        /\ UNCHANGED calls

SetOrientation ==
    \E value \in Orientations, dev \in Answer2 :
        /\ Outcome("set_orientation", <<value>>, set_orientation(Call(dev), value))
        /\ UNCHANGED calls

GetDisplaySize ==
    \E dev \in Answer22 :
        /\ Outcome("get_display_size", <<>>, get_display_size(Call(dev)))
        /\ UNCHANGED calls

MoveCursor ==
    \E line \in 0..1, column \in 0..1, dev \in Answer0 :
        /\ Outcome("move_cursor", <<line, column>>, move_cursor(Call(dev), line, column))
        /\ UNCHANGED calls

PutCharacter ==
    \E char \in Chars, dev \in Answer0 :
        /\ Outcome("put_character", <<char>>, put_character(Call(dev), char))
        /\ UNCHANGED calls

PutString ==
    \E string \in Strings, dev \in Answer2 :
        /\ Outcome("put_string", <<string>>, put_string(Call(dev), string))
        /\ UNCHANGED calls

\* the transport called on its own, as DisplayText calls it
GetAck ==
    \E return_bytes \in 0..MaxReturnBytes : \E dev \in Answer(return_bytes) :
        /\ Outcome("_get_ack", <<return_bytes>>, _get_ack(Call(dev), return_bytes))
        /\ UNCHANGED calls

WriteCmd ==
    \E cmd \in SeqsUpTo(Words, MaxWords) :
        /\ Outcome("write_cmd", <<cmd>>, write_cmd(Call(<<>>), cmd))
        /\ UNCHANGED calls

Next ==
    \/ GfxRect
    \/ GfxTriangle
    \/ GfxPolyline
    \/ GfxCircle
    \/ GfxEllipse
    \/ GfxLine
    \/ Cls
    \/ SetPixel
    \/ SetFontSize
    \/ SetFont
    \/ SetTextColor
    \/ SetBackgroundColor
    \/ SetContrast
    \/ Off
    \/ On
    \/ SetOrientation
    \/ GetDisplaySize
    \/ MoveCursor
    \/ PutCharacter
    \/ PutString
    \/ GetAck
    \/ WriteCmd

Spec == Init /\ [][Next]_vars

(* ------------------------------ sessions ------------------------------- *)
(* A session is a run of calls on one Display, recorded call by call in    *)
(* calls: the method, its arguments, its transport calls, how it ended and *)
(* what it returned.                                                       *)

Entry(name, a, c) == [op |-> name, arg |-> a, io |-> c.io, err |-> c.err, ret |-> c.ret]

Recorded(name, a, c) ==
    /\ Len(calls) < MaxCalls
    /\ Outcome(name, a, c)
    /\ calls' = Append(calls, Entry(name, a, c))

SessionSetContrast ==
    \E value \in Contrasts, dev \in Answer2 :
        Recorded("set_contrast", <<value>>, set_contrast(Call(dev), value))

SessionOff ==
    \E dev \in Answer2 : Recorded("off", <<>>, off(Call(dev)))

SessionOn ==
    \E dev \in Answer2 : Recorded("on", <<>>, on(Call(dev)))

ContrastNext ==
    \/ SessionSetContrast
    \/ SessionOff
    \/ SessionOn

\* sessions of set_contrast, off and on against a device that answers anything
ContrastSpec == Init /\ [][ContrastNext]_vars

\* The orientation the device holds: the one of the last set_orientation it
\* acknowledged, landscape (0) at power-up.
RECURSIVE DeviceOrientation(_)
DeviceOrientation(log) ==
    IF log = <<>> THEN 0
    ELSE LET last == log[Len(log)]
         IN  IF last.op = "set_orientation" /\ last.err # "PicasoException"
             THEN last.arg[1]
             ELSE DeviceOrientation(SubSeq(log, 1, Len(log) - 1))

\* The device's answers to set_orientation: ACK and the orientation it held, as
\* a big-endian word, or a byte that is no ACK.
OrientationAnswers ==
    {<<ACK>> \o int_to_dword(DeviceOrientation(calls))}
        \cup {<<b, 0, 0>> : b \in Bytes \ {ACK}}

SessionSetOrientation ==
    \E value \in Orientations, dev \in OrientationAnswers :
        Recorded("set_orientation", <<value>>, set_orientation(Call(dev), value))

OrientationNext == SessionSetOrientation

\* sessions of set_orientation against a device that reports the orientation it held
OrientationSpec == Init /\ [][OrientationNext]_vars

(* ------------------------------- claims -------------------------------- *)

FacadeOps ==
    {"gfx_rect", "gfx_polyline", "gfx_ellipse", "gfx_circle", "gfx_line", "cls",
     "set_pixel", "set_font_size", "set_font", "set_text_color",
     "set_background_color", "set_contrast", "off", "on", "set_orientation",
     "get_display_size", "move_cursor", "put_character", "put_string"}

IsWrite(e) == e.k \in {"write_cmd", "write_raw_cmd"}
IsAckRead(e) == e.k = "_get_ack"

\* C1: the transport calls of every facade operation alternate, command then
\* acknowledgement read, starting with a command and ending with the read of
\* the last command's acknowledgement: never two commands with no read
\* between them, never a read with no command before it.  As every call
\* leaves the channel balanced, so does every sequence of calls.
C1_CommandAckAlternate ==
    op \in FacadeOps =>
        /\ Len(io) % 2 = 0
        /\ \A i \in 1..Len(io) :
              IF i % 2 = 1 THEN IsWrite(io[i]) ELSE IsAckRead(io[i])

\* set_font_size went write, read, write, read
C1_Witness ==
    /\ op = "set_font_size"
    /\ err = "none"
    /\ Len(io) = 4
    /\ Len(rxd) = 6

\* C2: a _get_ack(return_bytes) whose first byte is not ACK raises the
\* protocol error carrying that byte, having read that one byte and none of
\* the response bytes.
C2_NonAckRaises ==
    (op = "_get_ack" /\ Len(rxd) >= 1 /\ rxd[1] # ACK) =>
        /\ err = "PicasoException"
        /\ errval = rxd[1]
        /\ Len(rxd) = 1

C2_Witness ==
    /\ op = "_get_ack"
    /\ args = <<2>>
    /\ rxd = <<\h15>>
    /\ err = "PicasoException"
    /\ errval = \h15

\* C3: a _get_ack(n) whose first byte is ACK reads 1 + n bytes and returns
\* the n bytes after the ACK in the order they came; for n = 0 it reads the
\* ACK alone and returns without a payload.
C3_AckReturnsPayload ==
    (op = "_get_ack" /\ Len(rxd) >= 1 /\ rxd[1] = ACK) =>
        /\ err = "none"
        /\ Len(rxd) = 1 + args[1]
        /\ IF args[1] = 0
           THEN ret = PyNone
           ELSE /\ ret.t = "list"
                /\ Len(ret.v) = args[1]
                /\ \A i \in 1..args[1] : ret.v[i] = PyInt(rxd[1 + i])

C3_Witness ==
    /\ op = "_get_ack"
    /\ args = <<2>>
    /\ rxd = <<ACK, 0, 2>>
    /\ ret = PyList(<<PyInt(0), PyInt(2)>>)

\* C4: after a set_contrast(c) that read ACK and the 2-byte response, the
\* cached contrast is c, whatever the response was.
C4_CacheTakesRequested ==
    (op = "set_contrast" /\ Len(rxd) = 3 /\ rxd[1] = ACK) => contrast = args[1]

CommandsOf(e) == SelectSeq(e.io, IsWrite)
Acknowledged(e) == e.err # "PicasoException"
ContrastCommand(value) == <<[k |-> "write_cmd", d |-> <<\hff9c, value>>]>>

\* C5: whenever a session holds set_contrast(c), off(), on() in a row, c not
\* 0, each acknowledged by the device, the three calls sent one contrast
\* command each, with the values c, 0, c.
C5_OffOnRestores ==
    \A i \in 1..(Len(calls) - 2) :
        (/\ calls[i].op = "set_contrast"
         /\ calls[i].arg[1] # 0
         /\ calls[i + 1].op = "off"
         /\ calls[i + 2].op = "on"
         /\ \A j \in i..(i + 2) : Acknowledged(calls[j]))
        => /\ CommandsOf(calls[i]) = ContrastCommand(calls[i].arg[1])
           /\ CommandsOf(calls[i + 1]) = ContrastCommand(0)
           /\ CommandsOf(calls[i + 2]) = ContrastCommand(calls[i].arg[1])

\* C6: put_string with more than 511 characters raises the validation error
\* with nothing written, nothing read and the cached contrast as it was; 511
\* characters pass the check and are sent.
C6_LongStringRejected ==
    [][op' = "put_string" =>
          /\ Len(args'[1]) > 511 =>
                /\ err' = "ValueError"
                /\ tx' = <<>>
                /\ rxd' = <<>>
                /\ io' = <<>>
                /\ contrast' = contrast
          /\ Len(args'[1]) = 511 =>
                /\ err' # "ValueError"
                /\ Len(tx') = 511 + 3]_vars

C6_Witness ==
    /\ op = "put_string"
    /\ Len(args[1]) = 512
    /\ err = "ValueError"
    /\ tx = <<>>

\* C7: put_string(s), s of at most 511 characters, writes len(s) + 3 bytes
\* with one raw-mode command: 0x00, 0x18, one byte per character of s in
\* order, 0x00.
C7_StringBytes ==
    (op = "put_string" /\ Len(args[1]) <= 511) =>
        /\ tx = <<0, \h18>> \o args[1] \o <<0>>
        /\ Len(tx) = Len(args[1]) + 3
        /\ CommandsOf([io |-> io]) = <<[k |-> "write_raw_cmd", d |-> tx]>>

\* put_string("OK")
C7_Witness ==
    /\ op = "put_string"
    /\ args[1] = <<\h4f, \h4b>>
    /\ tx = <<\h00, \h18, \h4f, \h4b, \h00>>

\* C8: after ACK, put_string(s) has read the ACK and both response bytes,
\* returns exactly when the big-endian word of the response is len(s), and
\* raises the assertion error otherwise.
C8_EchoedLengthChecked ==
    (op = "put_string" /\ Len(args[1]) <= 511 /\ Len(rxd) >= 1 /\ rxd[1] = ACK) =>
        /\ Len(rxd) = 3
        /\ err \in {"none", "AssertionError"}
        /\ err = "none" <=> rxd[2] * 256 + rxd[3] = Len(args[1])

\* put_string("OK") answered ACK 0x02 0x02: 514 characters written
C8_Witness ==
    /\ op = "put_string"
    /\ args[1] = <<\h4f, \h4b>>
    /\ rxd = <<ACK, 2, 2>>
    /\ err = "AssertionError"

PolylineOpcode(closed, filled) ==
    IF filled THEN \h0014 ELSE IF closed THEN \h0013 ELSE \h0015

PolylineWords(lines, color, closed, filled) ==
    <<PolylineOpcode(closed, filled), Len(lines)>>
        \o [i \in 1..Len(lines) |-> lines[i][1]]
        \o [i \in 1..Len(lines) |-> lines[i][2]]
        \o <<color>>

\* C9, as claimed: gfx_polyline sends one word-mode command of n + 3 words:
\* the opcode (0x0014 filled, 0x0013 closed and not filled, 0x0015
\* otherwise), n, the x of every vertex in order, the y of every vertex in
\* order, the colour.
C9_PolylineLayoutOriginal ==
    op = "gfx_polyline" =>
        LET n == Len(args[1])
            words == PolylineWords(args[1], args[2], args[3], args[4])
        IN  /\ CommandsOf([io |-> io]) = <<[k |-> "write_cmd", d |-> words]>>
            /\ Len(CommandsOf([io |-> io])[1].d) = n + 3

\* C9, amended: gfx_polyline sends one word-mode command of 2n + 3 words, 2
\* bytes each: the opcode (0x0014 filled, 0x0013 closed and not filled,
\* 0x0015 otherwise), n, the x of every vertex in order, the y of every
\* vertex in order, the colour.
C9_PolylineLayout ==
    op = "gfx_polyline" =>
        LET n == Len(args[1])
            words == PolylineWords(args[1], args[2], args[3], args[4])
        IN  /\ CommandsOf([io |-> io]) = <<[k |-> "write_cmd", d |-> words]>>
            /\ Len(CommandsOf([io |-> io])[1].d) = 2 * n + 3
            /\ Len(tx) = 2 * (2 * n + 3)

\* two different vertices, filled and not closed
C9_Witness ==
    /\ op = "gfx_polyline"
    /\ args[1] = <<<<0, 1>>, <<300, 2>>>>
    /\ args[3] = FALSE
    /\ args[4] = TRUE
    /\ io[1].d = <<\h0014, 2, 0, 300, 1, 2, \hf800>>

\* C10: a set_orientation that returns, returns the word of the whole 2-byte
\* response, high byte * 256 + low byte; so after a set_orientation(a) the
\* device acknowledged, the next set_orientation returns a.
C10_ReturnsPreviousOrientation ==
    /\ (op = "set_orientation" /\ err = "none") =>
          ret = PyInt(rxd[2] * 256 + rxd[3])
    /\ \A i \in 1..(Len(calls) - 1) :
          (/\ calls[i].op = "set_orientation"
           /\ calls[i + 1].op = "set_orientation"
           /\ calls[i].err = "none"
           /\ calls[i + 1].err = "none")
          => calls[i + 1].ret = PyInt(calls[i].arg[1])

\* C11: a get_display_size the device acknowledges makes two round trips,
\* [0xffa6, 0] then ACK and 2 bytes, [0xffa6, 1] then ACK and 2 bytes, and
\* returns (width, height), the big-endian words of the two responses.
C11_TwoRoundTrips ==
    (op = "get_display_size" /\ Len(rxd) >= 1 /\ rxd[1] = ACK) =>
        /\ Len(rxd) >= 4
        /\ rxd[4] = ACK =>
              /\ io = <<[k |-> "write_cmd", d |-> <<\hffa6, 0>>],
                        [k |-> "_get_ack", d |-> <<2>>],
                        [k |-> "write_cmd", d |-> <<\hffa6, 1>>],
                        [k |-> "_get_ack", d |-> <<2>>]>>
              /\ Len(rxd) = 6
              /\ err = "none"
              /\ ret = PyTuple(<<rxd[2] * 256 + rxd[3], rxd[5] * 256 + rxd[6]>>)

\* C12: write_cmd of k words in 0..65535 writes 2k bytes and reads none:
\* for each word in order its high byte (word div 256), then its low byte
\* (word mod 256), also when the word fits into one byte.
C12_WordsBigEndian ==
    op = "write_cmd" =>
        /\ Len(tx) = 2 * Len(args[1])
        /\ \A i \in 1..Len(args[1]) :
              /\ tx[2 * i - 1] = args[1][i] \div 256
              /\ tx[2 * i] = args[1][i] % 256
        /\ rxd = <<>>
        /\ err = "none"

\* write_cmd([0x00ff, 0xffc5])
C12_Witness ==
    /\ op = "write_cmd"
    /\ args[1] = <<255, \hffc5>>
    /\ tx = <<0, 255, \hff, \hc5>>

BytesOf(e) == IF e.k = "write_cmd" THEN 2 * Len(e.d) ELSE Len(e.d)

\* C13: a facade operation whose acknowledgement read fails stops there: the
\* protocol error with the byte read reaches the caller, the failed read is
\* the operation's last transport call, and no byte is written or read
\* after it.  So a failed first acknowledgement leaves one command written
\* and one byte read (set_font_size has not sent 0xffe3, get_display_size
\* has not sent [0xffa6, 1]), a failed second one two commands and four
\* bytes read.
C13_FailedAckEndsCall ==
    op \in FacadeOps =>
        /\ (Len(rxd) >= 1 /\ rxd[1] # ACK) =>
              /\ err = "PicasoException"
              /\ errval = rxd[1]
              /\ Len(rxd) = 1
              /\ Len(io) = 2
              /\ IsWrite(io[1])
              /\ Len(tx) = BytesOf(io[1])
              /\ op = "set_font_size" => io[1].d = <<\hffe4, args[1]>>
              /\ op = "get_display_size" => io[1].d = <<\hffa6, 0>>
        /\ (Len(rxd) >= 4 /\ rxd[1] = ACK /\ rxd[4] # ACK) =>
              /\ err = "PicasoException"
              /\ errval = rxd[4]
              /\ Len(rxd) = 4
              /\ Len(io) = 4
              /\ Len(tx) = BytesOf(io[1]) + BytesOf(io[3])
        /\ err = "PicasoException" =>
              /\ IsAckRead(io[Len(io)])
              /\ rxd[Len(rxd)] = errval
              /\ errval # ACK

\* set_font_size(2) answered NAK: only [0xffe4, 2] was sent
C13_Witness ==
    /\ op = "set_font_size"
    /\ args = <<2>>
    /\ rxd = <<\h15>>
    /\ err = "PicasoException"
    /\ tx = <<\hff, \he4, 0, 2>>

ContrastOps == {"set_contrast", "off", "on"}

\* C14: a call of anything but set_contrast, off and on leaves the cached
\* contrast as it was, whether the call returns or raises and whatever the
\* device answers.
C14_OnlyContrastOpsTouchCache ==
    [][op' \notin ContrastOps => contrast' = contrast]_vars

\* set_background_color answered ACK and the word 2, the cache still 15
C14_Witness ==
    /\ op = "set_background_color"
    /\ rxd = <<ACK, 0, 2>>
    /\ err = "none"
    /\ contrast = 15

\* C15: gfx_triangle(vertices, filled) sends one word-mode polyline command,
\* opcode 0x0013, or 0x0014 when filled, with the three vertices in the
\* polyline layout, and then reads one acknowledgement.
C15_TriangleIsClosedPolyline ==
    op = "gfx_triangle" =>
        /\ Len(io) = 2
        /\ io[1].k = "write_cmd"
        /\ Len(io[1].d) = 9
        /\ SubSeq(io[1].d, 1, 8) =
              <<PolylineOpcode(TRUE, args[2]), 3>>
                 \o [i \in 1..3 |-> args[1][i][1]]
                 \o [i \in 1..3 |-> args[1][i][2]]
        /\ io[2] = [k |-> "_get_ack", d |-> <<0>>]

\* C16: a set_contrast(c) whose acknowledgement byte is not ACK leaves the
\* cached contrast as it was, and on() sends the contrast command with the
\* value cached when it is called: so an on() after the failed call sends
\* the value cached before that call.
C16_FailedSetContrastKeepsCache ==
    [][/\ (op' = "set_contrast" /\ err' = "PicasoException") => contrast' = contrast
       /\ op' = "on" => CommandsOf([io |-> io']) = ContrastCommand(contrast)]_vars

\* set_contrast(200) answered with no ACK, then on(): on() sent 15
C16_Witness ==
    /\ Len(calls) >= 2
    /\ calls[1].op = "set_contrast"
    /\ calls[1].arg = <<200>>
    /\ calls[1].err = "PicasoException"
    /\ calls[2].op = "on"
    /\ CommandsOf(calls[2]) = ContrastCommand(15)

\* C17: on a new Display an on() before any set_contrast or off sends the
\* contrast command [0xff9c, 15], the bytes 0xff 0x9c 0x00 0x0f, and then
\* reads an acknowledgement with 2 response bytes.
C17_FirstOnSendsFifteen ==
    \A i \in 1..Len(calls) :
        (\A j \in 1..i : calls[j].op = "on") =>
            /\ calls[i].io = <<[k |-> "write_cmd", d |-> <<\hff9c, 15>>],
                               [k |-> "_get_ack", d |-> <<2>>]>>
            /\ i = Len(calls) => tx = <<\hff, \h9c, \h00, \h0f>>

\* on() as the first call, acknowledged
C17_Witness ==
    /\ Len(calls) = 1
    /\ op = "on"
    /\ tx = <<\hff, \h9c, \h00, \h0f>>
    /\ Len(rxd) = 3

====
